---- MODULE Spec2Model ----
(***************************************************************************)
(* Model of torchlive::vision::transforms::TransformsHostObject            *)
(* (TransformsHostObject.cpp): the host object exposing centerCrop, the    *)
(* factory closure centerCropFactoryFunc and the crop closure              *)
(* centerCropFunc it produces.                                             *)
(*                                                                         *)
(* A JS number is a double; the model keeps it as a numerator over Den, so *)
(* that the double -> int conversion of the factory is a real truncation.  *)
(* A tensor is its shape (the sequence tensor.sizes()); element data plays *)
(* no part in the crop geometry.                                           *)
(***************************************************************************)
EXTENDS Integers, Sequences, FiniteSets, TLC

VARIABLES
    centerCrop_,  \* the jsi::Function member of the host object
    callables,    \* closures produced by the factory and retained by the script
    tensors,      \* TensorHostObjects alive in the runtime, by handle
    call,         \* the most recent host call: what was passed, what came back
    geo           \* locals of the most recent crop invocation that got past parseTensor

vars == <<centerCrop_, callables, tensors, call, geo>>

----------------------------------------------------------------------------
(* Bounds of the model *)

MaxDim == 3          \* dimension sizes of the initial tensor range over 1..MaxDim
MaxRank == 3         \* ranks of the initial tensor range over 0..MaxRank
MaxCallables == 2    \* closures the script has the factory make
MaxTensors == 2      \* tensor handles the script retains
SizeBits == 16       \* width of size_t in the model (the index wrap-around)

Den == 2             \* JS numbers are multiples of 1/Den

----------------------------------------------------------------------------
(* JS values *)

Number(n) == [kind |-> "number", num |-> n]
Undefined == [kind |-> "undefined", num |-> 0]
TensorRef(i) == [kind |-> "tensor", num |-> i]

\* the sizes a script asks for: -1, 1 and MaxDim, as numerators over Den
JsNumbers == {Number(-Den), Number(Den), Number(MaxDim * Den)}

\* a size that is no integer: MaxDim + 1/Den
JsFraction == Number(MaxDim * Den + 1)

IsInteger(v) == v.kind = "number" /\ v.num % Den = 0

\* the argument lists the script passes to centerCrop(...)
FactoryArgLists ==
    {<<>>, <<JsFraction>>, <<Undefined>>, <<Number(Den), Undefined>>,
     <<Number(Den), Number(MaxDim * Den), Number(Den)>>}
    \cup {<<a>> : a \in JsNumbers}
    \cup {<<a, b>> : a \in JsNumbers, b \in JsNumbers}

\* the argument lists the script passes to a produced callable
InnerArgLists ==
    LET refs == {TensorRef(i) : i \in DOMAIN tensors}
    IN  {<<>>, <<Number(Den)>>} \cup {<<t>> : t \in refs}
        \cup {<<t, Number(Den)>> : t \in refs}

\* the initial tensor: any rank 0..MaxRank, last two dimensions 1..MaxDim,
\* leading dimensions 2
Shapes ==
    UNION {[1..r -> 1..MaxDim] : r \in 0..(IF MaxRank < 2 THEN MaxRank ELSE 2)}
    \cup {s \in UNION {[1..r -> 1..MaxDim] : r \in 3..MaxRank} :
            \A i \in 1..(Len(s) - 2) : s[i] = 2}

\* what an out-of-bounds read of the sizes array may find
Garbage == {1, MaxDim + 1}

\* the memory behind the two reads of getImageSize: whatever it is where a
\* read falls outside the sizes array, immaterial (0) where it does not
Memory(innerArguments) ==
    IF Len(innerArguments) = 1 /\ innerArguments[1].kind = "tensor"
    THEN LET n == Len(tensors[innerArguments[1].num])
         IN  (IF n < 1 THEN Garbage ELSE {0}) \X (IF n < 2 THEN Garbage ELSE {0})
    ELSE {<<0, 0>>}

----------------------------------------------------------------------------
(* Arithmetic of the C++ code *)

\* double -> int: truncation toward zero
ToInt(v) == IF v.num >= 0 THEN v.num \div Den ELSE -((-v.num) \div Den)

\* int / int: truncation toward zero
IntDiv(a, b) == IF a >= 0 THEN a \div b ELSE -((-a) \div b)

\* size_t subtraction: modulo 2^SizeBits
SizeSub(a, b) == (a - b) % (2 ^ SizeBits)

Min(a, b) == IF a < b THEN a ELSE b

----------------------------------------------------------------------------
(* The tensor library, as far as the crop uses it *)

NoTensor == [ok |-> FALSE, sizes |-> <<>>]

\* c10::maybe_wrap_dim: an index in [-n, n-1] counted from the end when
\* negative; a 0-sized range is treated as of size 1. -n-1 stands for the
\* IndexError.
maybe_wrap_dim(i, n) ==
    LET m == IF n <= 0 THEN 1 ELSE n
    IN  IF i < -m \/ i > m - 1 THEN -m - 1
        ELSE IF i < 0 THEN i + m ELSE i

\* at::narrow(self, dim, start, length): the view of self restricted to
\* [start, start + length) along dim, or an error (NoTensor) when self is
\* 0-dimensional, dim or start is out of range, length is negative or
\* start + length exceeds the dimension.
narrow(self, dim, start, length) ==
    IF ~self.ok \/ Len(self.sizes) = 0 THEN NoTensor
    ELSE LET d == maybe_wrap_dim(dim, Len(self.sizes))
         IN  IF d < 0 THEN NoTensor
             ELSE LET cur == self.sizes[d + 1]
                      st == IF start # cur THEN maybe_wrap_dim(start, cur) ELSE start
                  IN  IF st < 0 \/ length < 0 \/ st > cur - length THEN NoTensor
                      ELSE [ok |-> TRUE,
                            sizes |-> [self.sizes EXCEPT ![d + 1] = length]]

----------------------------------------------------------------------------
(* getImageSize and the crop geometry *)

\* the two positions of sizes that getImageSize reads: length - 1 and
\* length - 2, computed in size_t
ReadIndex(sizes) == <<SizeSub(Len(sizes), 1), SizeSub(Len(sizes), 2)>>

\* sizes[i] (ArrayRef::operator[] is unchecked): the element when i is in
\* range, otherwise whatever lies there in memory (mem)
SizesAt(sizes, i, mem) == IF i < Len(sizes) THEN sizes[i + 1] ELSE mem

\* getImageSize: size[0] is the last dimension (width), size[1] the
\* second-to-last (height). mem is what the out-of-range reads find.
getImageSize(sizes, mem) ==
    LET idx == ReadIndex(sizes)
    IN  <<SizesAt(sizes, idx[1], mem[1]), SizesAt(sizes, idx[2], mem[2])>>

\* ResolveCrop with std::max in place of std::min
ResolveCropLonger(width, height, size) ==
    LET maxSize == IF size[1] < size[2] THEN size[2] ELSE size[1]
    IN  IF width = -1 THEN <<maxSize, maxSize>>
        ELSE IF height = -1 THEN <<width, width>>
        ELSE <<height, width>>

\* ResolveCrop without the else-branch that defaults the height to the width
ResolveCropNoDefault(width, height, size) ==
    IF width = -1 THEN <<Min(size[1], size[2]), Min(size[1], size[2])>>
    ELSE <<height, width>>

\* ResolveCrop that clamps the crop size to the source size
ResolveCropClamped(width, height, size) ==
    LET h == IF width = -1 THEN Min(size[1], size[2])
             ELSE IF height = -1 THEN width ELSE height
        w == IF width = -1 THEN Min(size[1], size[2]) ELSE width
    IN  <<Min(h, size[2]), Min(w, size[1])>>

\* the resolved crop size <<cropHeight, cropWidth>>
ResolveCrop(width, height, size) ==
    IF width = -1 THEN <<Min(size[1], size[2]), Min(size[1], size[2])>>
    ELSE IF height = -1 THEN <<width, width>>
    ELSE <<height, width>>

\* cropTop rounding the half up
cropTopCeil(size, cropHeight) == IntDiv(size[2] - cropHeight + 1, 2)

cropTop(size, cropHeight) == IntDiv(size[2] - cropHeight, 2)

cropLeft(size, cropWidth) == IntDiv(size[1] - cropWidth, 2)

\* the two narrow calls: the second-to-last axis first, then the last one
NarrowHeight(sizes, top, cropHeight) ==
    narrow([ok |-> TRUE, sizes |-> sizes], Len(sizes) - 2, top, cropHeight)

NarrowWidth(t, dims, left, cropWidth) == narrow(t, dims - 1, left, cropWidth)

----------------------------------------------------------------------------
(* State after construction *)

CENTER_CROP == "centerCrop"

NoValue == [kind |-> "none", sizes |-> <<>>]

NoCall == [op |-> "none", count |-> 0, arg |-> "none", error |-> "none",
           returned |-> NoValue]

NoGeo == [accepted |-> FALSE, callable |-> 0, input |-> 0, sizes |-> <<>>,
          reads |-> <<>>, mem |-> <<>>, size |-> <<0, 0>>,
          cropHeight |-> 0, cropWidth |-> 0, cropTop |-> 0, cropLeft |-> 0,
          narrowed |-> <<>>, result |-> NoTensor]

\* TransformsHostObject(runtime): centerCrop_(createCenterCrop(runtime))
createCenterCrop == "centerCropFactoryFunc"

Init ==
    /\ centerCrop_ = createCenterCrop
    /\ callables = <<>>
    /\ tensors \in {<<s>> : s \in Shapes}
    /\ call = NoCall
    /\ geo = NoGeo

----------------------------------------------------------------------------
(* TransformsHostObject::get *)

get(name) ==
    /\ call' = [NoCall EXCEPT
                  !.op = "get",
                  !.returned = IF name = CENTER_CROP
                               THEN [kind |-> "function", sizes |-> <<>>]
                               ELSE [kind |-> "undefined", sizes |-> <<>>]]
    /\ UNCHANGED <<centerCrop_, callables, tensors, geo>>

----------------------------------------------------------------------------
(* centerCropFactoryFunc *)

\* Value::asNumber throws unless the value is a number
asNumberThrows(arguments) ==
    \/ Len(arguments) > 0 /\ arguments[1].kind # "number"
    \/ Len(arguments) > 1 /\ arguments[2].kind # "number"

\* Closure reading the height from the first argument and the width from the
\* second
ClosureSwapped(arguments) ==
    [width |-> IF Len(arguments) > 1 THEN ToInt(arguments[2])
               ELSE IF Len(arguments) > 0 THEN ToInt(arguments[1]) ELSE -1,
     height |-> IF Len(arguments) > 1 THEN ToInt(arguments[1]) ELSE -1,
     args |-> arguments]

\* the closure [width, height] built from the arguments; args is kept beside
\* the captures to tell how the closure was made
Closure(arguments) ==
    [width |-> IF Len(arguments) > 0 THEN ToInt(arguments[1]) ELSE -1,
     height |-> IF Len(arguments) > 1 THEN ToInt(arguments[2]) ELSE -1,
     args |-> arguments]

\* the closures alive once a new one is created: the captures are copies, so
\* the earlier closures are what they were
Retain(cs, c) == Append(cs, c)

centerCropFactoryFunc(arguments) ==
    /\ centerCrop_ = "centerCropFactoryFunc"
    /\ IF asNumberThrows(arguments)
       THEN /\ call' = [NoCall EXCEPT !.op = "factory",
                                      !.count = Len(arguments),
                                      !.error = "number"]
            /\ UNCHANGED callables
       ELSE /\ Len(callables) < MaxCallables
            /\ callables' = Retain(callables, Closure(arguments))
            /\ call' = [NoCall EXCEPT
                          !.op = "factory",
                          !.count = Len(arguments),
                          !.returned = [kind |-> "function", sizes |-> <<>>]]
    /\ UNCHANGED <<centerCrop_, tensors, geo>>

----------------------------------------------------------------------------
(* centerCropFunc *)

\* utils::helpers::parseTensor: the TensorHostObject behind the value, or an
\* error when the value is no tensor
parseTensor(v) == IF v.kind = "tensor" THEN v.num ELSE 0

\* the locals of one invocation of closure c on the tensor of handle h
Locals(c, h, mem) ==
    LET sizes == tensors[h]
        size == getImageSize(sizes, mem)
        crop == ResolveCrop(callables[c].width, callables[c].height, size)
        top == cropTop(size, crop[1])
        left == cropLeft(size, crop[2])
        dims == Len(sizes)
        t1 == NarrowHeight(sizes, top, crop[1])
        t2 == NarrowWidth(t1, dims, left, crop[2])
    IN  [accepted |-> TRUE, callable |-> c, input |-> h, sizes |-> sizes,
         reads |-> ReadIndex(sizes),
         mem |-> mem,
         size |-> size,
         cropHeight |-> crop[1], cropWidth |-> crop[2],
         cropTop |-> top, cropLeft |-> left,
         narrowed |-> IF t1.ok
                      THEN <<<<dims - 2, top, crop[1]>>, <<dims - 1, left, crop[2]>>>>
                      ELSE <<<<dims - 2, top, crop[1]>>>>,
         result |-> t2]

\* Wrap storing the narrowed tensor back into the input's host object
WrapInPlace(ts, h, result) == [ts EXCEPT ![h] = result.sizes]

\* the handles alive once the result is wrapped in a new TensorHostObject; the
\* input's handle keeps the tensor it had
Wrap(ts, h, result) == IF Len(ts) < MaxTensors THEN Append(ts, result.sizes) ELSE ts

centerCropFunc(c, innerArguments, mem) ==
    LET innerCount == Len(innerArguments)
        kind == IF innerCount > 0 THEN innerArguments[1].kind ELSE "none"
        failed(e) == [NoCall EXCEPT !.op = "crop", !.count = innerCount,
                                    !.arg = kind, !.error = e]
    IN  IF innerCount # 1
        THEN /\ call' = failed("argument")
             /\ UNCHANGED <<centerCrop_, callables, tensors, geo>>
        ELSE IF parseTensor(innerArguments[1]) = 0
        THEN /\ call' = failed("argument")
             /\ UNCHANGED <<centerCrop_, callables, tensors, geo>>
        ELSE \E l \in {Locals(c, parseTensor(innerArguments[1]), mem)} :
                 /\ geo' = l
                 /\ IF l.result.ok
                    THEN /\ tensors' = Wrap(tensors, l.input, l.result)
                         /\ call' = [failed("none") EXCEPT
                                       !.returned = [kind |-> "tensor",
                                                     sizes |-> l.result.sizes]]
                    ELSE /\ call' = failed("library")
                         /\ UNCHANGED tensors
                 /\ UNCHANGED <<centerCrop_, callables>>

----------------------------------------------------------------------------
(* The host object under a script *)

Get == \E name \in {CENTER_CROP, "other"} : get(name)

Factory == \E arguments \in FactoryArgLists : centerCropFactoryFunc(arguments)

Crop ==
    \E c \in DOMAIN callables, innerArguments \in InnerArgLists :
        \E mem \in Memory(innerArguments) :
            centerCropFunc(c, innerArguments, mem)

Next == Get \/ Factory \/ Crop

Spec == Init /\ [][Next]_vars

\* a script that builds one callable and then only invokes it
FactoryOnce == callables = <<>> /\ Factory

NextOneCallable == Get \/ FactoryOnce \/ Crop

SpecOneCallable == Init /\ [][NextOneCallable]_vars

----------------------------------------------------------------------------
(* Vocabulary of the properties: the most recent accepted invocation *)

Rank == Len(geo.sizes)

IsImage == geo.accepted /\ Rank >= 2

H == geo.sizes[Rank - 1]

W == geo.sizes[Rank]

\* the factory arguments the invoked callable was made with
MadeWith == callables[geo.callable].args

ResultHeight == geo.result.sizes[Rank - 1]

ResultWidth == geo.result.sizes[Rank]

\* the size the invoked callable asks for, when it names a width
AskedWidth == callables[geo.callable].width

AskedHeight ==
    IF callables[geo.callable].height = -1 THEN callables[geo.callable].width
    ELSE callables[geo.callable].height

----------------------------------------------------------------------------
(* C1: a callable made by centerCrop() with no size arguments, invoked on a *)
(* tensor [..., H, W], returns a tensor whose last two dimensions are both  *)
(* min(H, W).                                                               *)
SquareOfShorterSide ==
    (IsImage /\ MadeWith = <<>>) =>
        /\ geo.result.ok
        /\ ResultHeight = (IF H < W THEN H ELSE W)
        /\ ResultWidth = (IF H < W THEN H ELSE W)

SquareOfShorterSideWitness ==
    /\ IsImage /\ MadeWith = <<>> /\ H > W /\ W > 1
    /\ geo.result.ok /\ call.returned.kind = "tensor"

(* C2: a callable made by centerCrop(w), height omitted, 1 <= w <= min(H,W), *)
(* returns a tensor whose last two dimensions are [w, w].                    *)
HeightDefaultsToWidth ==
    (/\ IsImage /\ Len(MadeWith) = 1 /\ IsInteger(MadeWith[1])
     /\ 1 <= MadeWith[1].num \div Den
     /\ MadeWith[1].num \div Den <= H /\ MadeWith[1].num \div Den <= W) =>
        /\ geo.result.ok
        /\ ResultHeight = MadeWith[1].num \div Den
        /\ ResultWidth = MadeWith[1].num \div Den

HeightDefaultsToWidthWitness ==
    /\ IsImage /\ Len(MadeWith) = 1 /\ IsInteger(MadeWith[1])
    /\ MadeWith[1].num \div Den >= 1 /\ MadeWith[1].num \div Den < W /\ W < H
    /\ geo.result.ok /\ call.returned.kind = "tensor"

(* C3: a callable made by centerCrop(w, h), 1 <= w <= W and 1 <= h <= H,    *)
(* returns a tensor whose second-to-last dimension is h and whose last      *)
(* dimension is w.                                                          *)
WidthThenHeight ==
    (/\ IsImage /\ Len(MadeWith) = 2
     /\ IsInteger(MadeWith[1]) /\ IsInteger(MadeWith[2])
     /\ 1 <= MadeWith[1].num \div Den /\ MadeWith[1].num \div Den <= W
     /\ 1 <= MadeWith[2].num \div Den /\ MadeWith[2].num \div Den <= H) =>
        /\ geo.result.ok
        /\ ResultHeight = MadeWith[2].num \div Den
        /\ ResultWidth = MadeWith[1].num \div Den

WidthThenHeightWitness ==
    /\ IsImage /\ Len(MadeWith) = 2
    /\ MadeWith[1].num \div Den >= 1 /\ MadeWith[2].num \div Den >= 1
    /\ MadeWith[1].num \div Den < MadeWith[2].num \div Den
    /\ geo.result.ok /\ ResultHeight > ResultWidth /\ ResultHeight > W

(* C4: the crop is centered. With a resolved crop size that fits             *)
(* (0 <= cropHeight <= H, 0 <= cropWidth <= W) the invocation hands          *)
(* [top, top + cropHeight) on the second-to-last axis and                    *)
(* [left, left + cropWidth) on the last axis to narrow, where                *)
(* top = (H - cropHeight) / 2 and left = (W - cropWidth) / 2 rounded down,   *)
(* so the margin after the crop exceeds the margin before it by at most 1.   *)
CropIsCentered ==
    (/\ IsImage
     /\ 0 <= geo.cropHeight /\ geo.cropHeight <= H
     /\ 0 <= geo.cropWidth /\ geo.cropWidth <= W) =>
        /\ 2 * geo.cropTop <= H - geo.cropHeight
        /\ H - geo.cropHeight <= 2 * geo.cropTop + 1
        /\ 2 * geo.cropLeft <= W - geo.cropWidth
        /\ W - geo.cropWidth <= 2 * geo.cropLeft + 1
        /\ geo.narrowed = <<<<Rank - 2, geo.cropTop, geo.cropHeight>>,
                            <<Rank - 1, geo.cropLeft, geo.cropWidth>>>>
        /\ geo.result.ok
        /\ ResultHeight = geo.cropHeight
        /\ ResultWidth = geo.cropWidth

CropIsCenteredWitness ==
    /\ IsImage /\ geo.result.ok
    /\ H - geo.cropHeight = 2 * geo.cropTop + 1
    /\ W - geo.cropWidth = 2 * geo.cropLeft /\ geo.cropLeft > 0

(* C5: invoking the produced callable with any argument count other than one, *)
(* or with one argument that is no tensor, fails with an argument error and   *)
(* returns no tensor; invoking it with exactly one tensor argument succeeds   *)
(* and returns a tensor.                                                      *)
OneTensorArgumentSucceeds ==
    call.op = "crop" =>
        IF call.count = 1 /\ call.arg = "tensor"
        THEN call.error = "none" /\ call.returned.kind = "tensor"
        ELSE call.error = "argument" /\ call.returned.kind = "none"

(* C6: on a tensor of rank n >= 2 the invocation changes only the last two  *)
(* axes: the result has rank n and its leading n - 2 dimensions are those   *)
(* of the input, and the input handle keeps its own shape.                  *)
LeadingDimensionsKept ==
    IsImage =>
        /\ tensors[geo.input] = geo.sizes
        /\ geo.result.ok =>
            /\ Len(geo.result.sizes) = Rank
            /\ \A i \in 1..(Rank - 2) : geo.result.sizes[i] = geo.sizes[i]

LeadingDimensionsKeptWitness ==
    /\ IsImage /\ Rank > 2 /\ geo.result.ok
    /\ ResultHeight < H /\ ResultWidth < W
    /\ tensors[geo.input] = geo.sizes

\* no captured value and no member of the host object changes
CapturesKept ==
    /\ centerCrop_' = centerCrop_
    /\ \A i \in DOMAIN callables :
        i \in DOMAIN callables' /\ callables'[i] = callables[i]

\* the step is an invocation that got past parseTensor, on a tensor of the
\* shape of the accepted invocation before it
Reinvoked ==
    /\ geo.accepted /\ call'.op = "crop" /\ call'.error # "argument"
    /\ geo'.sizes = geo.sizes

SameOutcome ==
    /\ geo'.cropTop = geo.cropTop
    /\ geo'.cropLeft = geo.cropLeft
    /\ geo'.result = geo.result

(* C7: the crop specification captured by a callable is immutable: no host  *)
(* call, failed or not, changes the captures of a callable or the host      *)
(* object's factory, and invoking a callable again on a tensor of the same  *)
(* shape yields the offsets and the result shape it yielded before.         *)
CaptureImmutable ==
    [][/\ CapturesKept
       /\ (Reinvoked /\ geo'.callable = geo.callable) => SameOutcome]_vars

(* C8: when the asked crop size exceeds the source along an axis, the        *)
(* invocation neither pads nor validates: it raises no argument error and    *)
(* the range it computes for narrow on that axis, the asked size unclamped,  *)
(* is invalid (its offset is negative or offset + size exceeds the axis).    *)
OversizeIsHandedOn ==
    (IsImage /\ AskedWidth # -1) =>
        /\ AskedHeight > H =>
            /\ geo.cropHeight = AskedHeight
            /\ geo.cropTop < 0 \/ geo.cropTop + geo.cropHeight > H
            /\ geo.narrowed[1] = <<Rank - 2, geo.cropTop, AskedHeight>>
            /\ ~geo.result.ok
        /\ AskedWidth > W =>
            /\ geo.cropWidth = AskedWidth
            /\ geo.cropLeft < 0 \/ geo.cropLeft + geo.cropWidth > W
            /\ Len(geo.narrowed) = 2 =>
                geo.narrowed[2] = <<Rank - 1, geo.cropLeft, AskedWidth>>
            /\ ~geo.result.ok
        /\ (AskedHeight > H \/ AskedWidth > W) =>
            ((call.op = "crop" /\ call.count = 1 /\ call.arg = "tensor")
                => call.error = "library" /\ call.returned.kind = "none")

OversizeIsHandedOnWitness ==
    /\ IsImage /\ AskedWidth # -1
    /\ AskedHeight > H /\ geo.cropTop < 0
    /\ AskedWidth = W + 1 /\ geo.cropLeft = 0
    /\ call.op = "crop" /\ call.error = "library"

(* C9: every invocation that passes the arity check and the tensor parse    *)
(* reads the shape only at valid positions: rank - 1 and rank - 2 both lie  *)
(* in 0..rank-1, also for tensors of rank 0 and 1.                          *)
ShapeReadsInRange ==
    geo.accepted => \A k \in DOMAIN geo.reads : geo.reads[k] \in 0..(Rank - 1)

\* the argument lists a and b ask for the same crop, were -1 an omission
SameRequest(a, b) ==
    \/ /\ Len(a) >= 1 /\ a[1] = Number(-Den) /\ b = <<>>
    \/ /\ Len(a) = 2 /\ a[1] # Number(-Den) /\ a[2] = Number(-Den)
       /\ b = <<a[1]>>
    \/ /\ Len(a) > 2 /\ b = SubSeq(a, 1, 2)

(* C10: a factory argument equal to -1 is indistinguishable from an omitted *)
(* one: on every tensor shape the callable from centerCrop(-1, h) yields    *)
(* the offsets and result shape of the callable from centerCrop(), the one  *)
(* from centerCrop(w, -1) those of the one from centerCrop(w), and          *)
(* arguments beyond the second never affect the result.                     *)
SentinelIsOmission ==
    [][(/\ Reinvoked
        /\ \/ SameRequest(callables[geo.callable].args,
                          callables'[geo'.callable].args)
           \/ SameRequest(callables'[geo'.callable].args,
                          callables[geo.callable].args))
       => SameOutcome]_vars

----------------------------------------------------------------------------
(* Where getImageSize reads inside the shape (rank >= 2) a repeated         *)
(* invocation, and an invocation of a callable made with -1 in place of an  *)
(* omitted argument, yield the same offsets and result shape; so does every *)
(* step keep the captures.                                                  *)
CapturesAlwaysKept == [][CapturesKept]_vars

RepeatableOnImages ==
    [][(Reinvoked /\ Rank >= 2 /\ geo'.callable = geo.callable)
       => SameOutcome]_vars

SentinelIsOmissionOnImages ==
    [][(/\ Reinvoked /\ Rank >= 2
        /\ \/ SameRequest(callables[geo.callable].args,
                          callables'[geo'.callable].args)
           \/ SameRequest(callables'[geo'.callable].args,
                          callables[geo.callable].args))
       => SameOutcome]_vars

====
